---- MODULE Spec2Model ----
\* Model of hera's `generate yaml` command (src/hera/_cli/generate/yaml.py):
\* expand_paths, the load loop of generate_yaml and its output routing.
\*
\* A file name is a sequence of one-character strings (<<"a",".","p","y">> is
\* a.py), a path is a sequence of names (pathlib's parts), a text is a string.
EXTENDS Integers, Sequences, FiniteSets, TLC

\* ---------------------------------------------------------------- bounds

\* At most this many files exist below the source directory.
MaxFiles == 3

\* Directories nest at most this deep, the source directory counting as 1.
MaxDepth == 3

\* ---------------------------------------------------------------- inputs

PY == <<".", "p", "y">>
YAML == <<".", "y", "a", "m", "l">>

WF == <<"w", "f">>
OUT == <<"o", "u", "t">>
A_PY == <<"a", ".", "p", "y">>
B_PY == <<"b", ".", "p", "y">>
DOT_PY == <<".", "p", "y">>
A_TXT == <<"a", ".", "t", "x", "t">>
D_PY == <<"d", ".", "p", "y">>

\* Names a regular file may have: two modules, a hidden file named ".py"
\* and a text file.
FileNames == {A_PY, B_PY, DOT_PY, A_TXT}

\* The name a subdirectory may have: it carries the module suffix, so a
\* listing that failed to tell directories from files would yield it.
DirName == D_PY

\* What executing a file may leave behind: the to_yaml() texts of the
\* Workflow objects bound at its top level, in binding order.
Modules == {<<>>, <<"A">>, <<"C", "D">>}

\* Optional[Path]: the empty set is None, {p} is the path p.
None == {}
Some(p) == {p}
The(o) == CHOOSE p \in o : TRUE

\* ------------------------------------------------------- str and pathlib

\* ord(c) for the characters the names use.
CodePoint(c) ==
    CASE c = "." -> 46
      [] c = "a" -> 97
      [] c = "b" -> 98
      [] c = "d" -> 100
      [] c = "f" -> 102
      [] c = "l" -> 108
      [] c = "m" -> 109
      [] c = "o" -> 111
      [] c = "p" -> 112
      [] c = "t" -> 116
      [] c = "u" -> 117
      [] c = "w" -> 119
      [] c = "x" -> 120
      [] c = "y" -> 121

\* str.__lt__: lexicographic by code point, a proper prefix sorts first.
RECURSIVE StrLt(_, _)
StrLt(a, b) ==
    IF b = <<>> THEN FALSE
    ELSE IF a = <<>> THEN TRUE
    ELSE IF Head(a) = Head(b) THEN StrLt(Tail(a), Tail(b))
    ELSE CodePoint(Head(a)) < CodePoint(Head(b))

\* Path.__lt__: the parts compared as lists of strings.
RECURSIVE PathLt(_, _)
PathLt(p, q) ==
    IF q = <<>> THEN FALSE
    ELSE IF p = <<>> THEN TRUE
    ELSE IF Head(p) = Head(q) THEN PathLt(Tail(p), Tail(q))
    ELSE StrLt(Head(p), Head(q))

\* str.rfind(c), 1-based; 0 when c does not occur.
RFind(name, c) ==
    LET hits == {i \in 1..Len(name) : name[i] = c}
    IN  IF hits = {} THEN 0 ELSE CHOOSE i \in hits : \A j \in hits : j <= i

\* Path.name: the last part.
Name(path) == path[Len(path)]

\* PurePath.suffix of a name: from the last dot on, unless that dot is the
\* first or the last character.
suffix(name) ==
    LET i == RFind(name, ".")
    IN  IF 1 < i /\ i < Len(name) THEN SubSeq(name, i, Len(name)) ELSE <<>>

\* PurePath.with_suffix on a name.
with_suffix(name, suf) ==
    LET old == suffix(name)
    IN  IF old = <<>> THEN name \o suf
        ELSE SubSeq(name, 1, Len(name) - Len(old)) \o suf

\* str.join.
RECURSIVE join(_, _)
join(sep, texts) ==
    IF texts = <<>> THEN ""
    ELSE IF Len(texts) = 1 THEN texts[1]
    ELSE texts[1] \o sep \o join(sep, Tail(texts))

SEP == "\n---\n"

\* ------------------------------------------------------------ filesystem

IsPrefix(d, p) == Len(d) <= Len(p) /\ SubSeq(p, 1, Len(d)) = d

\* The directories a source tree may hold: wf, wf/d.py, wf/d.py/d.py, ...
RECURSIVE DirChain(_)
DirChain(n) ==
    IF n = 1 THEN {<<WF>>}
    ELSE LET below == DirChain(n - 1)
         IN  below \cup {Append(d, DirName) : d \in {e \in below : Len(e) = n - 1}}

AllFiles == {Append(d, n) : d \in DirChain(MaxDepth), n \in FileNames}

Trees == {t \in SUBSET AllFiles : Cardinality(t) <= MaxFiles}

VARIABLES
    from_,          \* the source path
    from_is_dir,    \* whether the source path is a directory
    files,          \* the regular files at or below the source path
    to,             \* the destination, None or Some(path)
    to_kind,        \* what the destination path is on disk: absent, file, dir
    recursive,      \* the --recursive flag
    dont_write_bytecode, \* sys.dont_write_bytecode of the interpreter
    pc,             \* position in generate_yaml
    yielded,        \* what expand_paths yielded, in yield order
    paths,          \* sorted(expand_paths(...))
    loaded,         \* what load_workflows_from_module returned, per path
    path_to_output, \* the (name, text) pairs collected so far
    k,              \* entries of path_to_output already written to disk
    pyc,            \* bytecode files the imports wrote below the source
    made,           \* directories os.makedirs created
    written,        \* files write_text wrote: full path -> content
    stdout,         \* the texts handed to sys.stdout.write, in order
    outcome,        \* how the call ended
    trace           \* the calls made so far, in order

vars == <<from_, from_is_dir, files, to, to_kind, recursive,
          dont_write_bytecode, pc, yielded, paths, loaded, path_to_output, k,
          pyc, made, written, stdout, outcome, trace>>

inputs == <<from_, from_is_dir, files, to, recursive, dont_write_bytecode>>

\* ---------------------------------------------------------- expand_paths

\* The orders in which the operating system may list the directories of a
\* tree: os.scandir promises none, so every order is possible. An order
\* ranks the files of the tree; a directory lists its files by rank and its
\* subdirectories by the lowest rank found below each, which lets every
\* directory's two lists take every order independently.
ScanOrders(tree) ==
    {ord \in [tree -> 1..Cardinality(tree)] :
        \A p, q \in tree : p # q => ord[p] # ord[q]}

\* A set of names as a list, lowest rank first.
RECURSIVE Listing(_, _)
Listing(names, rank) ==
    IF names = {} THEN <<>>
    ELSE LET first == CHOOSE n \in names : \A m \in names : rank[n] <= rank[m]
         IN  <<first>> \o Listing(names \ {first}, rank)

\* One (dir, dirnames, filenames) triple of os.walk.
Scan(dir, ord) ==
    LET below == {p \in files : IsPrefix(dir, p) /\ Len(p) > Len(dir)}
        inside == {p \in below : Len(p) = Len(dir) + 1}
        deeper == below \ inside
        filenames == {Name(p) : p \in inside}
        dirnames == {p[Len(dir) + 1] : p \in deeper}
        lowest(d) == LET rs == {ord[p] : p \in {q \in deeper : q[Len(dir) + 1] = d}}
                     IN  CHOOSE r \in rs : \A r2 \in rs : r <= r2
    IN  [dir |-> dir,
         dirnames |-> Listing(dirnames, [d \in dirnames |-> lowest(d)]),
         filenames |-> Listing(filenames, [n \in filenames |-> ord[Append(dir, n)]])]

\* A walk that never descends below its top directory.
WalkTopOnly(top, ord) == <<Scan(top, ord)>>

\* os.walk(top): top-down, a directory before its subdirectories.
RECURSIVE Walk(_, _)
RECURSIVE WalkAll(_, _, _)
WalkAll(dir, dirnames, ord) ==
    IF dirnames = <<>> THEN <<>>
    ELSE Walk(Append(dir, Head(dirnames)), ord) \o WalkAll(dir, Tail(dirnames), ord)

Walk(top, ord) ==
    LET here == Scan(top, ord)
    IN  <<here>> \o WalkAll(top, here.dirnames, ord)

\* The inner loop of expand_paths over one directory's file names.
RECURSIVE Matching(_, _)
Matching(dir, file_names) ==
    IF file_names = <<>> THEN <<>>
    ELSE LET path == Append(dir, Head(file_names))
         IN  (IF suffix(Name(path)) = PY THEN <<path>> ELSE <<>>)
             \o Matching(dir, Tail(file_names))

RECURSIVE MatchingAll(_)
MatchingAll(triples) ==
    IF triples = <<>> THEN <<>>
    ELSE Matching(Head(triples).dir, Head(triples).filenames)
         \o MatchingAll(Tail(triples))

\* expand_paths with the recursive flag ignored: the whole subtree, always.
expand_paths_whole_tree(source, rec, ord) ==
    IF ~from_is_dir THEN <<source>> ELSE MatchingAll(Walk(source, ord))

expand_paths(source, rec, ord) ==
    IF ~from_is_dir THEN <<source>>
    ELSE LET iterator == IF rec THEN Walk(source, ord)
                         ELSE <<Head(Walk(source, ord))>>
         IN  MatchingAll(iterator)

\* sorted(): insertion into an ordered list.
RECURSIVE Insert(_, _)
Insert(p, s) ==
    IF s = <<>> THEN <<p>>
    ELSE IF PathLt(p, Head(s)) THEN <<p>> \o s
    ELSE <<Head(s)>> \o Insert(p, Tail(s))

RECURSIVE sorted(_)
sorted(s) == IF s = <<>> THEN <<>> ELSE Insert(Head(s), sorted(Tail(s)))

\* ------------------------------------------------------------ generate_yaml

Init ==
    /\ from_is_dir \in BOOLEAN
    /\ IF from_is_dir
       THEN from_ = <<WF>> /\ files \in Trees
       ELSE \E n \in FileNames : from_ = <<n>> /\ files = {<<n>>}
    /\ recursive \in BOOLEAN
    /\ dont_write_bytecode \in BOOLEAN
    /\ \/ to = None /\ to_kind = "absent"
       \/ to = Some(<<OUT>>) /\ to_kind \in {"absent", "file", "dir"}
    /\ pc = "expand"
    /\ yielded = <<>>
    /\ paths = <<>>
    /\ loaded = <<>>
    /\ path_to_output = <<>>
    /\ k = 0
    /\ pyc = {}
    /\ made = {}
    /\ written = <<>>
    /\ stdout = <<>>
    /\ outcome = "running"
    /\ trace = <<>>

\* Line 38, the generator run to its end.
ExpandPaths ==
    /\ pc = "expand"
    /\ \E ord \in ScanOrders(files) : yielded' = expand_paths(from_, recursive, ord)
    /\ pc' = "sort"
    /\ trace' = Append(trace, <<"expand_paths">>)
    /\ UNCHANGED <<inputs, pyc, to_kind, paths, loaded, path_to_output, k, made,
                   written, stdout, outcome>>

\* Line 38, sorted() over what the generator yielded.
SortPaths ==
    /\ pc = "sort"
    /\ paths' = sorted(yielded)
    /\ pc' = "load"
    /\ trace' = Append(trace, <<"sorted">>)
    /\ UNCHANGED <<inputs, pyc, to_kind, yielded, loaded, path_to_output, k, made,
                   written, stdout, outcome>>

\* The loop body joining a file's documents with a bare newline.
CollectNewline(pto, path, workflows) ==
    IF workflows = <<>> THEN pto
    ELSE Append(pto, <<Name(path), join("\n", workflows)>>)

\* The loop body without lines 47-48: an empty file adds an empty text.
CollectEmpty(pto, path, workflows) ==
    Append(pto, <<Name(path), join(SEP, workflows)>>)

\* Lines 43-51: one pass of the loop body, given what the load returned.
Collect(pto, path, workflows) ==
    IF workflows = <<>> THEN pto
    ELSE Append(pto, <<Name(path), join(SEP, workflows)>>)

\* importlib's spec_from_file_location (line 108) finds a loader only for
\* a location ending in a module suffix; of the names here, ".py".
Importable(path) ==
    LET name == Name(path)
    IN  /\ Len(name) >= Len(PY)
        /\ SubSeq(name, Len(name) - Len(PY) + 1, Len(name)) = PY

PYCACHE == <<"_", "_", "p", "y", "c", "a", "c", "h", "e", "_", "_">>
CACHE_TAG == <<"c", "p", "y", "t", "h", "o", "n", "-", "3", "1", "1">>
PYC == <<".", "p", "y", "c">>

\* importlib.util.cache_from_source: where exec_module (line 114) caches
\* the bytecode of the source file at path.
cache_from_source(path) ==
    LET tail == Name(path)
        head == SubSeq(path, 1, Len(path) - 1)
        i == RFind(tail, ".")
        base == SubSeq(tail, 1, i - 1)
        sep == IF i = 0 THEN <<>> ELSE <<".">>
        rest == SubSeq(tail, i + 1, Len(tail))
    IN  head \o <<PYCACHE, (IF base # <<>> THEN base ELSE rest) \o sep \o CACHE_TAG \o PYC>>

\* Line 114: the source is compiled and, unless bytecode writing is off,
\* its bytecode cached, before the module body runs.
Cached(path) ==
    IF dont_write_bytecode THEN pyc ELSE pyc \cup {cache_from_source(path)}

\* The loop printing each file's text as soon as it is loaded.
LoadModuleStreaming ==
    /\ pc = "load"
    /\ Len(loaded) < Len(paths)
    /\ LET path == paths[Len(loaded) + 1]
       IN  /\ Importable(path)
           /\ \E workflows \in Modules :
                /\ loaded' = Append(loaded, workflows)
                /\ path_to_output' = Append(path_to_output, <<Name(path), join(SEP, workflows)>>)
                /\ stdout' = IF workflows = <<>> THEN stdout
                             ELSE Append(stdout, join(SEP, workflows))
           /\ pyc' = Cached(path)
           /\ trace' = Append(trace, <<"load", path>>)
    /\ UNCHANGED <<inputs, to_kind, pc, yielded, paths, k, made, written,
                   outcome>>

\* Lines 42-51 with lines 108-121 returning.
LoadModule ==
    /\ pc = "load"
    /\ Len(loaded) < Len(paths)
    /\ LET path == paths[Len(loaded) + 1]
       IN  /\ Importable(path)
           /\ \E workflows \in Modules :
                /\ loaded' = Append(loaded, workflows)
                /\ path_to_output' = Collect(path_to_output, path, workflows)
           /\ pyc' = Cached(path)
           /\ trace' = Append(trace, <<"load", path>>)
    /\ UNCHANGED <<inputs, to_kind, pc, yielded, paths, k, made, written,
                   stdout, outcome>>

\* Line 114 raising: exec_module's error leaves generate_yaml uncaught.
\* A source that does not compile (a SyntaxError) raises before its
\* bytecode is cached; one that raises while its body runs, after.
LoadRaises ==
    /\ pc = "load"
    /\ Len(loaded) < Len(paths)
    /\ Importable(paths[Len(loaded) + 1])
    /\ \E compiles \in BOOLEAN :
           pyc' = IF compiles THEN Cached(paths[Len(loaded) + 1]) ELSE pyc
    /\ trace' = Append(trace, <<"load", paths[Len(loaded) + 1]>>)
    /\ pc' = "done"
    /\ outcome' = "ExecError"
    /\ UNCHANGED <<inputs, to_kind, yielded, paths, loaded, path_to_output,
                   k, made, written, stdout>>

\* Line 109 failing: no loader for the file's suffix, spec is None.
SpecIsNone ==
    /\ pc = "load"
    /\ Len(loaded) < Len(paths)
    /\ ~Importable(paths[Len(loaded) + 1])
    /\ trace' = Append(trace, <<"load", paths[Len(loaded) + 1]>>)
    /\ pc' = "done"
    /\ outcome' = "AssertionError"
    /\ UNCHANGED <<inputs, pyc, to_kind, yielded, paths, loaded,
                   path_to_output, k, made, written, stdout>>

\* Routing that does not wait for the loop to end.
LoopEntered == pc = "load"

LoopDone == pc = "load" /\ Len(loaded) = Len(paths)

Texts(pto) == [i \in 1..Len(pto) |-> pto[i][2]]

\* Lines 72-74.
WriteStdout ==
    /\ LoopDone
    /\ to = None
    /\ stdout' = Append(stdout, join(SEP, Texts(path_to_output)))
    /\ trace' = Append(trace, <<"stdout.write">>)
    /\ pc' = "done"
    /\ outcome' = "ok"
    /\ UNCHANGED <<inputs, pyc, to_kind, yielded, paths, loaded, path_to_output,
                   k, made, written>>

\* Line 56: os.path.exists(to) and not to.is_dir().
ExistsNotDir == to_kind = "file"

\* An existing destination file taken as the one file to hold every text.
WriteAllIntoFile ==
    /\ LoopDone
    /\ to # None
    /\ from_is_dir
    /\ ExistsNotDir
    /\ written' = (The(to) :> join(SEP, Texts(path_to_output)))
    /\ trace' = Append(trace, <<"exists">>) \o <<<<"write_text", The(to)>>>>
    /\ pc' = "done"
    /\ outcome' = "ok"
    /\ UNCHANGED <<inputs, pyc, to_kind, yielded, paths, loaded, path_to_output,
                   k, made, stdout>>

\* Lines 55-59.
RaiseBadParameter ==
    /\ LoopDone
    /\ to # None
    /\ from_is_dir
    /\ ExistsNotDir
    /\ trace' = Append(trace, <<"exists">>)
    /\ pc' = "done"
    /\ outcome' = "BadParameter"
    /\ UNCHANGED <<inputs, pyc, to_kind, yielded, paths, loaded, path_to_output,
                   k, made, written, stdout>>

\* Lines 55-61.
MakeDirs ==
    /\ LoopDone
    /\ to # None
    /\ from_is_dir
    /\ ~ExistsNotDir
    /\ made' = IF to_kind = "absent" THEN made \cup {The(to)} ELSE made
    /\ to_kind' = "dir"
    /\ trace' = Append(trace, <<"exists">>) \o <<<<"makedirs">>>>
    /\ pc' = "write"
    /\ UNCHANGED <<inputs, pyc, yielded, paths, loaded, path_to_output, k,
                   written, stdout, outcome>>

\* A write that leaves an existing file as it is.
PutNew(disk, full_path, content) ==
    [p \in DOMAIN disk \cup {full_path} |->
        IF p \in DOMAIN disk THEN disk[p] ELSE content]

\* Path.write_text on the run's files: create or overwrite.
Put(disk, full_path, content) ==
    [p \in DOMAIN disk \cup {full_path} |->
        IF p = full_path THEN content ELSE disk[p]]

\* Line 64.
FullPath(dest, name) == Append(dest, with_suffix(name, YAML))

\* Lines 63-65, one pass.
WriteFile ==
    /\ pc = "write"
    /\ k < Len(path_to_output)
    /\ LET path == path_to_output[k + 1][1]
           content == path_to_output[k + 1][2]
           full_path == FullPath(The(to), path)
       IN  /\ written' = Put(written, full_path, content)
           /\ trace' = Append(trace, <<"write_text", full_path>>)
    /\ k' = k + 1
    /\ UNCHANGED <<inputs, pyc, to_kind, pc, yielded, paths, loaded,
                   path_to_output, made, stdout, outcome>>

\* Line 63, the loop exhausted: generate_yaml returns.
Return ==
    /\ pc = "write"
    /\ k = Len(path_to_output)
    /\ pc' = "done"
    /\ outcome' = "ok"
    /\ UNCHANGED <<inputs, pyc, to_kind, yielded, paths, loaded, path_to_output,
                   k, made, written, stdout, trace>>

\* Line 67 failing.
AssertFails ==
    /\ LoopDone
    /\ to # None
    /\ ~from_is_dir
    /\ Len(path_to_output) # 1
    /\ pc' = "done"
    /\ outcome' = "AssertionError"
    /\ UNCHANGED <<inputs, pyc, to_kind, yielded, paths, loaded, path_to_output,
                   k, made, written, stdout, trace>>

\* Lines 67-70, the destination not a directory.
WriteSingle ==
    /\ LoopDone
    /\ to # None
    /\ ~from_is_dir
    /\ Len(path_to_output) = 1
    /\ to_kind # "dir"
    /\ written' = Put(written, The(to), path_to_output[1][2])
    /\ to_kind' = "file"
    /\ k' = 1
    /\ trace' = Append(trace, <<"write_text", The(to)>>)
    /\ pc' = "done"
    /\ outcome' = "ok"
    /\ UNCHANGED <<inputs, pyc, yielded, paths, loaded, path_to_output, made,
                   stdout>>

\* A single-file route that writes into a destination directory.
WriteSingleIntoDir ==
    /\ LoopDone
    /\ to # None
    /\ ~from_is_dir
    /\ Len(path_to_output) = 1
    /\ to_kind = "dir"
    /\ LET full_path == FullPath(The(to), path_to_output[1][1])
       IN  /\ written' = Put(written, full_path, path_to_output[1][2])
           /\ trace' = Append(trace, <<"write_text", full_path>>)
    /\ k' = 1
    /\ pc' = "done"
    /\ outcome' = "ok"
    /\ UNCHANGED <<inputs, pyc, to_kind, yielded, paths, loaded, path_to_output,
                   made, stdout>>

\* Lines 67-70, the destination a directory: open() for writing fails.
WriteSingleOnDir ==
    /\ LoopDone
    /\ to # None
    /\ ~from_is_dir
    /\ Len(path_to_output) = 1
    /\ to_kind = "dir"
    /\ trace' = Append(trace, <<"write_text", The(to)>>)
    /\ pc' = "done"
    /\ outcome' = "IsADirectoryError"
    /\ UNCHANGED <<inputs, pyc, to_kind, yielded, paths, loaded, path_to_output,
                   k, made, written, stdout>>

Next ==
    \/ ExpandPaths
    \/ SortPaths
    \/ LoadModule
    \/ LoadRaises
    \/ SpecIsNone
    \/ WriteStdout
    \/ RaiseBadParameter
    \/ MakeDirs
    \/ WriteFile
    \/ Return
    \/ AssertFails
    \/ WriteSingle
    \/ WriteSingleOnDir

Spec == Init /\ [][Next]_vars

\* ------------------------------------------------- vocabulary of the claims

Range(s) == {s[i] : i \in DOMAIN s}

NoDuplicates(s) == \A i, j \in DOMAIN s : i # j => s[i] # s[j]

\* A name made of a non-empty stem followed by ".py".
EndsWithPy(name) ==
    /\ Len(name) > Len(PY)
    /\ \A i \in 1..Len(PY) : name[Len(name) - Len(PY) + i] = PY[i]

\* The same name with its last three characters replaced by ".yaml".
YamlName(name) == [i \in 1..(Len(name) + 2) |->
    IF i <= Len(name) - 3 THEN name[i] ELSE YAML[i - (Len(name) - 3)]]

Ascending(ps) == \A i, j \in DOMAIN ps : i < j => PathLt(ps[i], ps[j])

\* The candidate files whose load returned at least one Workflow.
Contributing == {i \in 1..Len(loaded) : loaded[i] # <<>>}

\* The contributing candidates among the first n, in load order.
RECURSIVE ContributingUpTo(_)
ContributingUpTo(n) ==
    IF n = 0 THEN <<>>
    ELSE ContributingUpTo(n - 1) \o (IF loaded[n] # <<>> THEN <<n>> ELSE <<>>)

\* The documents of the first n loads, file by file, in returned order.
RECURSIVE DocumentsUpTo(_)
DocumentsUpTo(n) == IF n = 0 THEN <<>> ELSE DocumentsUpTo(n - 1) \o loaded[n]

\* Documents separated by the line ---, built from the left.
RECURSIVE Separated(_)
Separated(docs) ==
    IF docs = <<>> THEN ""
    ELSE LET front == SubSeq(docs, 1, Len(docs) - 1)
         IN  IF front = <<>> THEN docs[Len(docs)]
             ELSE Separated(front) \o "\n---\n" \o docs[Len(docs)]

AllLoaded == Len(loaded) = Len(paths)

IsOutputEvent(e) == e[1] \in {"exists", "makedirs", "write_text", "stdout.write"}

WriteEvents == SelectSeq(trace, LAMBDA e : e[1] = "write_text")

LoadEvents == SelectSeq(trace, LAMBDA e : e[1] = "load")

\* The bytecode file of a source named <stem>.py: <stem>.cpython-311.pyc
\* in the __pycache__ directory beside it (py.cpython-311.pyc for ".py").
BytecodeFile(path) ==
    LET name == Name(path)
        stem == IF Len(name) = 3 THEN <<"p", "y">>
                ELSE [i \in 1..(Len(name) - 3) |-> name[i]]
    IN  [i \in 1..(Len(path) - 1) |-> path[i]]
        \o <<PYCACHE, stem \o <<".", "c", "p", "y", "t", "h", "o", "n", "-", "3", "1", "1",
                                 ".", "p", "y", "c">>>>

\* What the first n loads have left below the source.
BytecodeOf(n) ==
    IF dont_write_bytecode THEN {} ELSE {BytecodeFile(paths[i]) : i \in 1..n}

NothingOut ==
    /\ stdout = <<>>
    /\ made = {}
    /\ written = <<>>
    /\ \A i \in DOMAIN trace : trace[i][1] \notin {"makedirs", "write_text", "stdout.write"}

\* ---------------------------------------------------------------- claims

\* C1: with no destination and every load succeeding, the one text written
\* to stdout is all documents of the candidate files, file by file in
\* sorted-path order and within a file in returned order, separated by the
\* line ---; it is the empty string when no file contributes.
C1_StdoutJoinsDocuments ==
    (pc = "done" /\ to = None /\ AllLoaded) =>
        /\ outcome = "ok"
        /\ Ascending(paths)
        /\ Range(paths) = Range(yielded)
        /\ stdout = <<Separated(DocumentsUpTo(Len(paths)))>>

C1_Witness ==
    /\ pc = "done" /\ to = None /\ outcome = "ok"
    /\ Len(paths) = 3
    /\ loaded = <<<<"C", "D">>, <<>>, <<"A">>>>
    /\ stdout = <<"C\n---\nD\n---\nA">>

\* C2: a candidate file whose load returned no Workflow adds no entry to
\* path_to_output, no text and no separator to stdout, and no write to a
\* directory destination: entries and writes pair off with the contributing
\* files alone.
C2_EmptyFilesSkipped ==
    LET cs == ContributingUpTo(Len(loaded))
    IN  /\ path_to_output =
               [j \in 1..Len(cs) |-> <<Name(paths[cs[j]]), Separated(loaded[cs[j]])>>]
        /\ from_is_dir =>
               /\ Len(WriteEvents) <= Len(cs)
               /\ \A j \in 1..Len(WriteEvents) :
                      WriteEvents[j][2] = Append(The(to), YamlName(Name(paths[cs[j]])))
               /\ \A p \in DOMAIN written : written[p] # ""
        /\ stdout # <<>> =>
               stdout = <<Separated([j \in 1..Len(cs) |-> Separated(loaded[cs[j]])])>>

C2_Witness ==
    /\ pc = "done" /\ outcome = "ok" /\ from_is_dir /\ to # None
    /\ Len(paths) = 3
    /\ loaded[1] # <<>> /\ loaded[2] = <<>> /\ loaded[3] # <<>>
    /\ Len(WriteEvents) = 2

\* C3 as stated: a directory source with a destination that exists and is
\* not a directory always ends in BadParameter, nothing created or written.
C3_AlwaysBadParameter ==
    (pc = "done" /\ from_is_dir /\ to # None /\ to_kind = "file") =>
        /\ outcome = "BadParameter"
        /\ NothingOut
        /\ pyc = {}

\* C3 amended: a directory source with a destination that exists and is not
\* a directory ends in BadParameter when every candidate file loaded, and in
\* the load's own error otherwise; either way no destination directory was
\* created and no output written. All the run has left on disk is the
\* bytecode of the files that loaded, in __pycache__ beside each of them,
\* with that of the raising file if it compiled, and nothing when bytecode
\* writing is off.
C3_BadParameterAfterLoads ==
    (pc = "done" /\ from_is_dir /\ to # None /\ to_kind = "file") =>
        /\ outcome \in {"BadParameter", "ExecError"}
        /\ (outcome = "BadParameter") <=> AllLoaded
        /\ NothingOut
        /\ BytecodeOf(Len(loaded)) \subseteq pyc
        /\ pyc \subseteq BytecodeOf(Len(LoadEvents))

C3_Witness ==
    /\ pc = "done" /\ from_is_dir /\ to # None /\ to_kind = "file"
    /\ outcome = "BadParameter"
    /\ Contributing # {}
    /\ pyc # {}
    /\ trace[Len(trace)] = <<"exists">>

\* C4: a single-file source with a destination reaches the single-file
\* route with exactly one entry in path_to_output, so line 67's assertion
\* holds and the destination ends up holding that text.
C4_AssertionHolds ==
    /\ (LoopDone /\ ~from_is_dir /\ to # None) => Len(path_to_output) = 1
    /\ ~(AllLoaded /\ outcome = "AssertionError")

\* C5 as stated: a single-file source with a destination that is a directory
\* has its text written to destination/<base name>.yaml.
C5_FileIntoDirectory ==
    (pc = "done" /\ ~from_is_dir /\ to # None /\ to_kind = "dir"
        /\ Len(path_to_output) = 1) =>
        /\ outcome = "ok"
        /\ written = (FullPath(The(to), Name(from_)) :> path_to_output[1][2])

\* C5 amended: the directory-writing route (makedirs, then one write per
\* entry under the destination) is taken exactly when a destination is
\* given and the source is a directory. A single-file source never writes
\* under the destination: its one text goes to the destination path itself,
\* and when that path is a directory the write fails with IsADirectoryError
\* and no file is written.
C5_DirectoryRouteIffSourceIsDir ==
    /\ (pc = "write" \/ made # {} \/ \E i \in DOMAIN trace : trace[i][1] = "makedirs")
           => (from_is_dir /\ to # None)
    /\ (pc = "done" /\ from_is_dir /\ to # None /\ outcome = "ok")
           => /\ \E i \in DOMAIN trace : trace[i][1] = "makedirs"
              /\ \A p \in DOMAIN written : Len(p) = 2 /\ p[1] = OUT
    /\ (~from_is_dir /\ to # None)
           => /\ DOMAIN written \subseteq {The(to)}
              /\ \A i \in DOMAIN WriteEvents : WriteEvents[i][2] = The(to)
    /\ (pc = "done" /\ ~from_is_dir /\ to # None /\ to_kind = "dir")
           => /\ written = <<>>
              /\ outcome # "ok"
              /\ (Len(path_to_output) = 1 /\ AllLoaded) => outcome = "IsADirectoryError"

C5_Witness ==
    /\ pc = "done" /\ ~from_is_dir /\ to # None /\ to_kind = "dir"
    /\ outcome = "IsADirectoryError"
    /\ Len(path_to_output) = 1
    /\ trace[Len(trace)] = <<"write_text", <<OUT>>>>

\* C6 as stated: after a successful run from a directory to a directory,
\* every contributing file's own text is in destination/<base name>.yaml
\* and as many files were written as files contributed.
C6_OneFilePerContributor ==
    (pc = "done" /\ outcome = "ok" /\ from_is_dir /\ to # None) =>
        /\ \A i \in Contributing :
               LET target == Append(The(to), YamlName(Name(paths[i])))
               IN  /\ target \in DOMAIN written
                   /\ written[target] = Separated(loaded[i])
        /\ Cardinality(DOMAIN written) = Cardinality(Contributing)

\* C6 amended: after a successful run from a directory to a directory, for
\* every contributing file destination/<base name>.yaml exists and holds
\* the text of the last contributing file, in sorted-path order, with that
\* base name; as many files were written as the contributing files have
\* distinct base names. Without --recursive base names are distinct, so
\* each file holds its own candidate's text and the two counts are equal.
C6_LastOfEachBaseName ==
    (pc = "done" /\ outcome = "ok" /\ from_is_dir /\ to # None) =>
        /\ \A i \in Contributing :
               LET target == Append(The(to), YamlName(Name(paths[i])))
                   same == {j \in Contributing : Name(paths[j]) = Name(paths[i])}
                   last == CHOOSE j \in same : \A h \in same : h <= j
               IN  /\ target \in DOMAIN written
                   /\ written[target] = Separated(loaded[last])
                   /\ ~recursive => last = i
        /\ Cardinality(DOMAIN written) =
               Cardinality({Name(paths[i]) : i \in Contributing})
        /\ ~recursive => Cardinality(DOMAIN written) = Cardinality(Contributing)
        /\ Len(WriteEvents) = Cardinality(Contributing)

C6_Witness ==
    /\ pc = "done" /\ outcome = "ok" /\ from_is_dir /\ to # None /\ recursive
    /\ paths = <<<<WF, A_PY>>, <<WF, B_PY>>, <<WF, D_PY, A_PY>>>>
    /\ loaded = <<<<"A">>, <<"A">>, <<"C", "D">>>>
    /\ written = (<<OUT, YamlName(A_PY)>> :> "C\n---\nD") @@ (<<OUT, YamlName(B_PY)>> :> "A")

\* C7: when executing a candidate file raises, the run ends with that
\* error and nothing has been written to stdout, no directory created and
\* no file written, however many files loaded before it and whatever the
\* destination.
C7_LoadErrorLeavesNothing ==
    /\ outcome = "ExecError" =>
           /\ pc = "done"
           /\ NothingOut
           /\ Len(LoadEvents) = Len(loaded) + 1
    /\ (pc = "load" /\ Len(loaded) < Len(paths)) => NothingOut

C7_Witness ==
    /\ outcome = "ExecError"
    /\ to # None /\ from_is_dir
    /\ Len(loaded) = 2 /\ Contributing = {1, 2}

\* C8: for a directory source without --recursive, expand_paths yields each
\* immediate child file named <stem>.py exactly once and nothing else.
C8_NonRecursiveImmediateChildren ==
    (pc # "expand" /\ from_is_dir /\ ~recursive) =>
        /\ NoDuplicates(yielded)
        /\ Range(yielded) =
               {p \in files : Len(p) = Len(from_) + 1 /\ EndsWithPy(Name(p))}

C8_Witness ==
    /\ pc = "sort" /\ from_is_dir /\ ~recursive
    /\ files = {<<WF, B_PY>>, <<WF, A_TXT>>, <<WF, D_PY, A_PY>>}
    /\ yielded = <<<<WF, B_PY>>>>

\* C9: for a directory source with --recursive, expand_paths yields each
\* file of the subtree named <stem>.py, at any depth, exactly once and
\* nothing else.
C9_RecursiveWholeSubtree ==
    (pc # "expand" /\ from_is_dir /\ recursive) =>
        /\ NoDuplicates(yielded)
        /\ Range(yielded) = {p \in files : EndsWithPy(Name(p))}

C9_Witness ==
    /\ pc = "sort" /\ from_is_dir /\ recursive
    /\ files = {<<WF, A_PY>>, <<WF, D_PY, A_TXT>>, <<WF, D_PY, D_PY, A_PY>>}
    /\ Range(yielded) = {<<WF, A_PY>>, <<WF, D_PY, D_PY, A_PY>>}

\* C10: the paths are expanded once and fully sorted, then each candidate
\* file is loaded once in sorted order, and only after the last load does
\* any output event (destination check, makedirs, file write, stdout write)
\* occur; no load follows an output event.
C10_ExpandSortLoadThenOutput ==
    /\ \A i \in DOMAIN trace :
           /\ trace[i][1] = "expand_paths" <=> i = 1
           /\ trace[i][1] = "sorted" <=> i = 2
    /\ pc \notin {"expand", "sort"} =>
           /\ Len(trace) >= 2
           /\ Ascending(paths)
           /\ Len(paths) = Len(yielded)
           /\ Range(paths) = Range(yielded)
    /\ Len(LoadEvents) <= Len(paths)
    /\ LoadEvents = [j \in 1..Len(LoadEvents) |-> <<"load", paths[j]>>]
    /\ \A i \in DOMAIN trace :
           IsOutputEvent(trace[i]) =>
               /\ Len(LoadEvents) = Len(paths)
               /\ \A j \in DOMAIN trace : j > i => trace[j][1] # "load"
               /\ AllLoaded
    /\ outcome = "ok" => Len(LoadEvents) = Len(paths)

C10_Witness ==
    /\ pc = "done" /\ outcome = "ok"
    /\ Len(paths) = 3
    /\ yielded # paths
    /\ Len(WriteEvents) = 2

====
